---- MODULE Spec2Model ----
(***************************************************************************)
(* A state-machine model of the operation-orchestration core of gofilebot: *)
(*   - UploadScheduler                     (src/scheduler.py)              *)
(*   - the /upload, /batch and cancel handlers with the in-memory          *)
(*     operation table and its durable mirror (src/main.py,                *)
(*     src/database.py)                                                    *)
(*   - one /upload operation at the grain of its chunks (src/main.py,      *)
(*     src/gofile.py)                                                      *)
(*   - FileMonitor and FileUploadHandler   (src/monitor.py)                *)
(* The program runs on one asyncio event loop: the code between two awaits *)
(* of a coroutine is one atomic step, and every await is a point where the *)
(* other coroutines may run.  Each action below is one such segment.       *)
(***************************************************************************)
EXTENDS Integers, Sequences, FiniteSets, Bags, TLC

\* ------------------------------------------------------------------ bounds
MaxTime   == 1    \* the wall clock runs over 0..MaxTime
MaxRegs   == 2    \* successful schedule_upload calls in one run
MaxOps    == 2    \* /upload and /batch commands accepted in one run
MaxFiles  == 1    \* documents collected by one batch
MaxRuns   == 2    \* start_upload calls in flight at the same time
MaxStops  == 1    \* stop() calls suspended at their await at the same time
MaxChunks == 2    \* chunks of the largest source of a download
MaxEvents == 2    \* on_created notifications in one run
cooldown  == 1    \* FileUploadHandler.cooldown (MONITOR_SETTINGS['cooldown_period'],
                  \* a setting), in ticks of the clock

\* config.py line 135, in seconds of the wall clock
PROGRESS_UPDATE_INTERVAL == 1

TaskIds   == {"t1", "t2"}
\* the deferred invocations a caller binds: a callback that returns normally
\* ("ok") or raises an Exception ("fail"), with its arguments
BoundActions == {[callback |-> "ok", args |-> "a"], [callback |-> "fail", args |-> "b"]}
Times     == 0..MaxTime
Oids      == 1..MaxRegs
OpIds     == 1..MaxOps          \* the uuid4 values, in the order they are drawn
Users     == {"u1"}

VARIABLES
  \* ---- UploadScheduler
  scheduled_tasks,   \* the dict, in insertion order: Seq of task records
  running,           \* self.running
  loopPc,            \* self._task: "none" | "created" | "inCallback" | "sleep" |
                     \* "done" (cancelled by stop(): ended, or about to end)
  tasks_to_run,      \* the tick's snapshot (local of _run_scheduler)
  idx,               \* position of the for loop in tasks_to_run
  now,               \* the wall clock
  nextOid,           \* identity of the next task dict object
  awaited,           \* cancelled loop tasks that have not ended yet, each one
                     \* awaited by the stop() call that cancelled it (line 31)
  orphans,           \* loop tasks that self._task no longer references and
                     \* that nobody cancelled
  \* ---- observation of the scheduler (history)
  invoked,           \* oid -> times the action was invoked: 0, 1, 2 (= 2 or more)
  succeeded,         \* oids whose action returned normally
  failed,            \* oids whose action raised
  interrupted,       \* oids whose running action was cancelled by stop()
  cancelledOids,     \* oids removed by cancel_upload
  ranInTick,         \* oids invoked so far in the current tick, in order
  lastCall,          \* the schedule_upload / cancel_upload call that has just returned
  \* ---- main.py / database.py
  active_operations, \* the dict: operation_id -> [cancelled, user_id]
  operations_table,  \* TinyDB table 'operations': operation_id -> document
  nextOp,            \* the next uuid4
  uploadPc,          \* operation_id -> the await handle_upload is suspended on
  batchPc,           \* operation_id -> the await handle_batch is suspended on
  files_to_upload,   \* operation_id -> length of the batch's list of documents
  handlers,          \* the per-batch handler pairs, in registration order
  runs,              \* the start_upload calls in flight: a bag of [op, pc, index]
  \* ---- observation of the operations (history)
  statusLog,         \* operation_id -> the statuses written to its document
  outcome,           \* operation_id -> how its transfer ended
  buttons,           \* operations whose cancel button has been shown
  cancelAnswer,      \* operation_id -> the last answer of handle_cancel for it
  notices,           \* operation_id -> the messages shown that tell the user how
                     \* the operation ended: 0, 1, 2 (= 2 or more)
  \* ---- one /upload operation seen at the grain of its chunks:
  \* download_with_progress and upload_with_progress
  xferPc,            \* the await the operation is suspended on, or how it ended
  path,              \* "url" (lines 120-149) | "tg" (lines 150-178)
  cancelFlag,        \* active_operations[operation_id]['cancelled']
  srcChunks,         \* the chunks the source holds
  total_size,        \* the size announced (content-length, or 0 without one)
  downloaded,        \* the chunks written to the file so far
  fileExists,        \* the file `media` (or the library's temporary file) exists
  download_task,     \* the task of line 155: "none" | "running" | "reporting" |
                     \* "done" | "error" | "cancelled"
  dlResult,          \* how download_with_progress ended: "none" | "returned" |
                     \* "Cancelled" | "httpError" (line 125) | "streamError" |
                     \* "zeroDivision" (line 141) | "taskError" (line 178)
  \* ---- observation of the transfer (history)
  flagAtStart,       \* the flag was set when download_with_progress was called
  writtenSinceCancel,\* chunks written to the file after the flag was set
  removalAttempted,  \* a removal of the downloaded file was attempted
  reports,           \* the update_progress_message calls, in order:
                     \* Seq of [status, bytes, total, at]
  \* ---- monitor.py: FileMonitor and FileUploadHandler
  watched_paths,     \* FileMonitor.watched_paths: path -> recursive
  watches,           \* the paths scheduled in the watchdog observer
  fileSize,          \* the file system: path -> "absent" | "small" (below
                     \* min_file_size) | "ok" | "big" (above max_file_size)
  fileLocked,        \* path -> open(path, 'rb+') fails
  processing_files,  \* FileUploadHandler.processing_files: path -> time.time()
  tasks,             \* the _process_file tasks in flight: a bag of [path, pc, wake]
  \* ---- observation of the monitor (history)
  watchCall,         \* the add_watch / remove_watch call that has just ended
  notified,          \* path -> on_created calls for it
  accepted,          \* path -> on_created calls that reached line 33
  touched,           \* path -> the file changed after on_created accepted it
  checkLog           \* the stabilization checks made (lines 78-87), in order:
                     \* Seq of [path, size, locked, waited, invoked]

schedVars == <<scheduled_tasks, running, loopPc, tasks_to_run, idx, now,
               nextOid, awaited, orphans, invoked, succeeded, failed, interrupted,
               cancelledOids, ranInTick, lastCall>>

opsVars == <<active_operations, operations_table, nextOp, uploadPc, batchPc,
             files_to_upload, handlers, runs, statusLog, outcome, buttons,
             cancelAnswer, notices>>

xferVars == <<xferPc, path, cancelFlag, srcChunks, total_size, downloaded,
              fileExists, download_task, dlResult, flagAtStart, writtenSinceCancel,
              removalAttempted, reports>>

monVars == <<watched_paths, watches, watchCall, fileSize, fileLocked,
             processing_files, tasks, notified, accepted, touched, checkLog>>

vars == <<schedVars, opsVars, xferVars, monVars>>

\* ------------------------------------------------------------ dict helpers
IndexOf(tbl, id) ==
  IF \E i \in 1..Len(tbl) : tbl[i].id = id
  THEN CHOOSE i \in 1..Len(tbl) : tbl[i].id = id
  ELSE 0

HasTask(tbl, id) == IndexOf(tbl, id) # 0

GetTask(tbl, id) == tbl[IndexOf(tbl, id)]

\* del d[id]
DelTask(tbl, id) == SelectSeq(tbl, LAMBDA e : e.id # id)

\* get_scheduled_uploads returns the dict itself
GetScheduledUploads == scheduled_tasks

\* ---------------------------------------------------------------- the tick
\* mutant: the comparison of line 45 reversed
IsDueReversed(task, t) == task.scheduled_time >= t

\* line 45: task['scheduled_time'] <= current_time
IsDue(task, t) == task.scheduled_time <= t

\* lines 44-46: the snapshot of the due tasks, in dict order
DueTasks(tbl, t) == SelectSeq(tbl, LAMBDA e : IsDue(e, t))

\* no call has just returned
NoCall == [op |-> "none", id |-> "none", ret |-> FALSE]

\* the count of the invocations of task object o: 0, 1, or 2 for two or more
Bump(f, o) == [f EXCEPT ![o] = IF @ = 0 THEN 1 ELSE 2]

SchedInit ==
  /\ scheduled_tasks = <<>>
  /\ running = FALSE
  /\ loopPc = "none"
  /\ tasks_to_run = <<>>
  /\ idx = 0
  /\ now = 0
  /\ nextOid = 1
  /\ awaited = 0
  /\ orphans = 0
  /\ invoked = [o \in Oids |-> 0]
  /\ succeeded = {}
  /\ failed = {}
  /\ interrupted = {}
  /\ cancelledOids = {}
  /\ ranInTick = <<>>
  /\ lastCall = NoCall

\* the loop tasks that can still run the code of _run_scheduler
LiveLoopPcs == {"created", "sleep", "inCallback"}

\* start() without the test of line 19
StartUnguarded ==
  /\ running' = TRUE
  /\ loopPc' = "created"
  /\ orphans' = IF loopPc \in LiveLoopPcs THEN orphans + 1 ELSE orphans
  /\ tasks_to_run' = <<>>
  /\ idx' = 0
  /\ ranInTick' = <<>>
  /\ UNCHANGED <<scheduled_tasks, now, nextOid, awaited, invoked, succeeded,
                 failed, interrupted, cancelledOids>>
  /\ lastCall' = NoCall
  /\ UNCHANGED <<opsVars, xferVars, monVars>>

\* start(): lines 17-22.  The call has no await.  The task that self._task
\* referenced before line 21 is a finished or a cancelled one, or it goes on
\* running unreferenced (orphans).
Start ==
  /\ IF ~running
     THEN /\ running' = TRUE
          /\ loopPc' = "created"
          /\ orphans' = IF loopPc \in LiveLoopPcs THEN orphans + 1 ELSE orphans
          /\ tasks_to_run' = <<>>
          /\ idx' = 0
          /\ ranInTick' = <<>>
          /\ lastCall' = NoCall
     ELSE /\ UNCHANGED <<running, loopPc, orphans, tasks_to_run, idx, ranInTick>>
          /\ lastCall' = NoCall
  /\ UNCHANGED <<scheduled_tasks, now, nextOid, awaited, invoked, succeeded,
                 failed, interrupted, cancelledOids>>
  /\ UNCHANGED <<opsVars, xferVars, monVars>>

\* stop(): lines 24-31, up to the await of the loop task.  cancel() makes the
\* await the loop task is suspended on (the callback of line 51 or the sleep
\* of line 58) raise CancelledError when the task next runs: the error is not
\* an Exception, so it passes line 54 and ends the loop at lines 59-60.  From
\* line 29 on the task runs no other code of the loop, and an action it was
\* awaiting is cut short.
Stop ==
  /\ IF running
     THEN /\ awaited < MaxStops
          /\ running' = FALSE
          /\ loopPc' = "done"
          /\ awaited' = awaited + 1
          /\ interrupted' = IF loopPc = "inCallback"
                            THEN interrupted \cup {tasks_to_run[idx].oid}
                            ELSE interrupted
          /\ tasks_to_run' = <<>>
          /\ idx' = 0
          /\ ranInTick' = <<>>
          /\ lastCall' = NoCall
     ELSE /\ UNCHANGED <<running, loopPc, awaited, interrupted, tasks_to_run, idx,
                         ranInTick>>
          /\ lastCall' = NoCall
  /\ UNCHANGED <<scheduled_tasks, now, nextOid, orphans, invoked, succeeded, failed,
                 cancelledOids>>
  /\ UNCHANGED <<opsVars, xferVars, monVars>>

\* stop(): lines 31-34.  The cancelled task has ended (lines 59-60), the await
\* of line 31 raises CancelledError, which line 32 drops, and stop() returns.
StopReturn ==
  /\ awaited > 0
  /\ awaited' = awaited - 1
  /\ lastCall' = NoCall
  /\ UNCHANGED <<scheduled_tasks, running, loopPc, tasks_to_run, idx, now, nextOid,
                 orphans, invoked, succeeded, failed, interrupted, cancelledOids,
                 ranInTick>>
  /\ UNCHANGED <<opsVars, xferVars, monVars>>

\* _run_scheduler, lines 38-51 and 58: from the while test (at the start of the
\* task or after the sleep) to the next await: the scan and, with a task due,
\* the call of the first callback; with none, the sleep.
LoopWake ==
  /\ loopPc \in {"created", "sleep"}
  /\ running
  /\ LET current_time == now
         snapshot == DueTasks(scheduled_tasks, current_time) IN
       IF snapshot = <<>>
       THEN /\ loopPc' = "sleep"
            /\ UNCHANGED <<tasks_to_run, idx, ranInTick, invoked>>
       ELSE /\ loopPc' = "inCallback"
            /\ tasks_to_run' = snapshot
            /\ idx' = 1
            /\ ranInTick' = <<snapshot[1].oid>>
            /\ invoked' = Bump(invoked, snapshot[1].oid)
  /\ UNCHANGED <<scheduled_tasks, running, now, nextOid, awaited, orphans,
                 succeeded, failed, interrupted, cancelledOids>>
  /\ lastCall' = NoCall
  /\ UNCHANGED <<opsVars, xferVars, monVars>>

\* mutant: the del of line 52 left out
AfterSuccessKeep(tbl, id) == tbl

\* lines 52-55 after the callback has returned normally: del of the id (a
\* KeyError, when the id is gone, is caught by line 54 like any Exception)
AfterSuccess(tbl, id) == IF HasTask(tbl, id) THEN DelTask(tbl, id) ELSE tbl

\* line 54-55 after the callback has raised: logged, the dict is left alone
AfterFailure(tbl, id) == tbl

\* mutant: no try around the callback, so that a raising callback lands in the
\* outer handler of lines 61-63, which sleeps and starts the next tick
NextPcOuterCatch(result, i, snapshot) ==
  IF result = "fail" THEN "sleep"
  ELSE IF i < Len(snapshot) THEN "inCallback" ELSE "sleep"

\* lines 49-58: the for loop after one callback has returned ("ok") or raised
\* ("fail", caught at line 54): the next callback, or the sleep
NextPc(result, i, snapshot) == IF i < Len(snapshot) THEN "inCallback" ELSE "sleep"

\* mutant: after each callback the loop scans the live table again, so that a
\* task that has become due or was added during the batch joins the batch
CallbackReturnRescan ==
  /\ loopPc = "inCallback"
  /\ LET e == tasks_to_run[idx] IN
       /\ IF e.callback = "ok"
          THEN /\ scheduled_tasks' = AfterSuccess(scheduled_tasks, e.id)
               /\ succeeded' = succeeded \cup {e.oid}
               /\ UNCHANGED failed
          ELSE /\ scheduled_tasks' = AfterFailure(scheduled_tasks, e.id)
               /\ failed' = failed \cup {e.oid}
               /\ UNCHANGED succeeded
       /\ LET ran == {ranInTick[i] : i \in 1..Len(ranInTick)}
              rest == SelectSeq(DueTasks(scheduled_tasks', now),
                                LAMBDA t : t.oid \notin ran) IN
            IF rest # <<>>
            THEN /\ loopPc' = "inCallback"
                 /\ tasks_to_run' = SubSeq(tasks_to_run, 1, idx) \o rest
                 /\ idx' = idx + 1
                 /\ ranInTick' = Append(ranInTick, rest[1].oid)
                 /\ invoked' = Bump(invoked, rest[1].oid)
            ELSE /\ loopPc' = "sleep"
                 /\ tasks_to_run' = <<>>
                 /\ idx' = 0
                 /\ ranInTick' = <<>>
                 /\ UNCHANGED invoked
  /\ UNCHANGED <<running, now, nextOid, awaited, orphans, interrupted,
                 cancelledOids>>
  /\ lastCall' = NoCall
  /\ UNCHANGED <<opsVars, xferVars, monVars>>

\* _run_scheduler, lines 51-58: the awaited callback ends (returns or raises);
\* the loop goes on to the next entry of the snapshot or to the sleep.
CallbackReturn ==
  /\ loopPc = "inCallback"
  /\ LET e == tasks_to_run[idx] IN
       /\ IF e.callback = "ok"
          THEN /\ scheduled_tasks' = AfterSuccess(scheduled_tasks, e.id)
               /\ succeeded' = succeeded \cup {e.oid}
               /\ UNCHANGED failed
          ELSE /\ scheduled_tasks' = AfterFailure(scheduled_tasks, e.id)
               /\ failed' = failed \cup {e.oid}
               /\ UNCHANGED succeeded
       /\ loopPc' = NextPc(e.callback, idx, tasks_to_run)
       /\ IF loopPc' = "inCallback"
          THEN /\ idx' = idx + 1
               /\ ranInTick' = Append(ranInTick, tasks_to_run[idx + 1].oid)
               /\ invoked' = Bump(invoked, tasks_to_run[idx + 1].oid)
               /\ UNCHANGED tasks_to_run
          ELSE \* the tick is over: its locals are dead until the next scan
               /\ tasks_to_run' = <<>>
               /\ idx' = 0
               /\ ranInTick' = <<>>
               /\ UNCHANGED invoked
  /\ UNCHANGED <<running, now, nextOid, awaited, orphans, interrupted,
                 cancelledOids>>
  /\ lastCall' = NoCall
  /\ UNCHANGED <<opsVars, xferVars, monVars>>

\* mutant: the membership test of lines 87-88 left out: the entry is overwritten
ScheduleUploadOverwrite(id, time, callback, args) ==
  /\ nextOid <= MaxRegs
  /\ scheduled_tasks' =
       IF HasTask(scheduled_tasks, id)
       THEN [scheduled_tasks EXCEPT ![IndexOf(scheduled_tasks, id)] =
               [id |-> id, scheduled_time |-> time, callback |-> callback,
                args |-> args, oid |-> nextOid]]
       ELSE Append(scheduled_tasks,
               [id |-> id, scheduled_time |-> time, callback |-> callback,
                args |-> args, oid |-> nextOid])
  /\ nextOid' = nextOid + 1
  /\ lastCall' = [op |-> "schedule_upload", id |-> id, ret |-> TRUE]
  /\ UNCHANGED <<running, loopPc, tasks_to_run, idx, now, awaited, orphans,
                 invoked, succeeded, failed, interrupted, cancelledOids, ranInTick>>
  /\ UNCHANGED <<opsVars, xferVars, monVars>>

\* schedule_upload: lines 65-100
ScheduleUpload(id, time, callback, args) ==
  /\ nextOid <= MaxRegs
  /\ IF HasTask(scheduled_tasks, id)
     THEN /\ lastCall' = [op |-> "schedule_upload", id |-> id, ret |-> FALSE]
          /\ UNCHANGED <<scheduled_tasks, nextOid>>
     ELSE /\ scheduled_tasks' = Append(scheduled_tasks,
                 [id |-> id, scheduled_time |-> time, callback |-> callback,
                  args |-> args, oid |-> nextOid])
          /\ nextOid' = nextOid + 1
          /\ lastCall' = [op |-> "schedule_upload", id |-> id, ret |-> TRUE]
  /\ UNCHANGED <<running, loopPc, tasks_to_run, idx, now, awaited, orphans,
                 invoked, succeeded, failed, interrupted, cancelledOids, ranInTick>>
  /\ UNCHANGED <<opsVars, xferVars, monVars>>

\* cancel_upload with a del that empties the dict
CancelUploadClear(id) ==
  /\ IF HasTask(scheduled_tasks, id)
     THEN /\ scheduled_tasks' = <<>>
          /\ cancelledOids' = cancelledOids \cup {GetTask(scheduled_tasks, id).oid}
          /\ lastCall' = [op |-> "cancel_upload", id |-> id, ret |-> TRUE]
     ELSE /\ lastCall' = [op |-> "cancel_upload", id |-> id, ret |-> FALSE]
          /\ UNCHANGED <<scheduled_tasks, cancelledOids>>
  /\ UNCHANGED <<running, loopPc, tasks_to_run, idx, now, nextOid, awaited,
                 orphans, invoked, succeeded, failed, interrupted, ranInTick>>
  /\ UNCHANGED <<opsVars, xferVars, monVars>>

\* cancel_upload: lines 102-121
CancelUpload(id) ==
  /\ IF HasTask(scheduled_tasks, id)
     THEN /\ scheduled_tasks' = DelTask(scheduled_tasks, id)
          /\ cancelledOids' = cancelledOids \cup {GetTask(scheduled_tasks, id).oid}
          /\ lastCall' = [op |-> "cancel_upload", id |-> id, ret |-> TRUE]
     ELSE /\ lastCall' = [op |-> "cancel_upload", id |-> id, ret |-> FALSE]
          /\ UNCHANGED <<scheduled_tasks, cancelledOids>>
  /\ UNCHANGED <<running, loopPc, tasks_to_run, idx, now, nextOid, awaited,
                 orphans, invoked, succeeded, failed, interrupted, ranInTick>>
  /\ UNCHANGED <<opsVars, xferVars, monVars>>

\* the wall clock read by datetime.now() at line 40
Tick ==
  /\ now < MaxTime
  /\ now' = now + 1
  /\ UNCHANGED <<scheduled_tasks, running, loopPc, tasks_to_run, idx,
                 nextOid, awaited, orphans, invoked, succeeded, failed, interrupted,
                 cancelledOids, ranInTick>>
  /\ lastCall' = NoCall
  /\ UNCHANGED <<opsVars, xferVars, monVars>>

SchedNext ==
  \/ Start
  \/ Stop
  \/ StopReturn
  \/ LoopWake
  \/ CallbackReturn
  \/ \E id \in TaskIds, t \in Times, act \in BoundActions :
       ScheduleUpload(id, t, act.callback, act.args)
  \/ \E id \in TaskIds : CancelUpload(id)
  \/ Tick

\* =================================================== main.py / database.py

\* add_operation, database.py lines 21-29: the document starts as 'active'
AddOperation(tbl, op, user, type) ==
  [o \in DOMAIN tbl \cup {op} |->
     IF o = op THEN [type |-> type, status |-> "active", user_id |-> user]
     ELSE tbl[o]]

\* update_operation_status, database.py lines 36-42: every matching document
\* is updated; with none, nothing happens
UpdateOperationStatus(tbl, op, status) ==
  IF op \in DOMAIN tbl THEN [tbl EXCEPT ![op].status = status] ELSE tbl

\* remove_operation, database.py lines 31-34
RemoveOperation(tbl, op) == [o \in DOMAIN tbl \ {op} |-> tbl[o]]

\* the statuses that insert and update write to the document of op
LogStatus(log, tbl, op, status) ==
  IF op \in DOMAIN tbl THEN [log EXCEPT ![op] = Append(@, status)] ELSE log

\* main.py lines 332-335 and 455-458
Register(tbl, op, user) ==
  [o \in DOMAIN tbl \cup {op} |->
     IF o = op THEN [cancelled |-> FALSE, user_id |-> user] ELSE tbl[o]]

\* main.py lines 446-447, 580-581, 593-594: if operation_id in
\* active_operations: del active_operations[operation_id]
DropActive(tbl, op) == [o \in DOMAIN tbl \ {op} |-> tbl[o]]

\* Bot.remove_handler(collect_files); Bot.remove_handler(start_upload)
RemoveHandlers(hs, op) == SelectSeq(hs, LAMBDA h : h.op # op)

\* a start_upload call that has returned or raised
Ended == [op |-> 0, pc |-> "ended", index |-> 0]

OpsInit ==
  /\ active_operations = <<>>
  /\ operations_table = <<>>
  /\ nextOp = 1
  /\ uploadPc = [o \in OpIds |-> "none"]
  /\ batchPc = [o \in OpIds |-> "none"]
  /\ files_to_upload = [o \in OpIds |-> 0]
  /\ handlers = <<>>
  /\ runs = EmptyBag
  /\ statusLog = [o \in OpIds |-> <<>>]
  /\ outcome = [o \in OpIds |-> "none"]
  /\ buttons = {}
  /\ cancelAnswer = [o \in OpIds |-> "none"]
  /\ notices = [o \in OpIds |-> 0]

\* ------------------------------------------------------------ handle_upload
\* Every `ok` below is the outcome of the awaited message.reply_text /
\* message.edit_text: it returns, or raises an Exception.

\* `db` below is the outcome of the calls of database.py in one step of
\* handle_upload: TRUE, they return; FALSE, the store is unavailable and they
\* raise (TinyDB cannot read or write its file).  The batch handlers are
\* modelled with the store available.

\* handle_upload, lines 331-340: up to the await of reply_text.  add_operation
\* (line 338) is called outside the try of line 346: when it raises, the
\* handler ends there, after line 332 has registered the operation.
HandleUpload(u, db) ==
  /\ nextOp <= MaxOps
  /\ active_operations' = Register(active_operations, nextOp, u)
  /\ IF db
     THEN /\ operations_table' = AddOperation(operations_table, nextOp, u, "upload")
          /\ statusLog' = [statusLog EXCEPT ![nextOp] = <<"active">>]
          /\ uploadPc' = [uploadPc EXCEPT ![nextOp] = "reply"]
     ELSE /\ uploadPc' = [uploadPc EXCEPT ![nextOp] = "aborted"]
          /\ UNCHANGED <<operations_table, statusLog>>
  /\ nextOp' = nextOp + 1
  /\ UNCHANGED <<batchPc, files_to_upload, handlers, runs, outcome, buttons,
                 cancelAnswer, notices>>
  /\ UNCHANGED <<schedVars, xferVars, monVars>>

\* a step of handle_upload that only moves to its next await
UploadGoto(op, pc, result) ==
  /\ uploadPc' = [uploadPc EXCEPT ![op] = pc]
  /\ outcome' = IF result = "same" THEN outcome ELSE [outcome EXCEPT ![op] = result]
  /\ buttons' = IF pc = "downloading" THEN buttons \cup {op} ELSE buttons
  /\ UNCHANGED <<cancelAnswer, notices>>
  /\ UNCHANGED <<active_operations, operations_table, nextOp, batchPc,
                 files_to_upload, handlers, runs, statusLog>>
  /\ UNCHANGED <<schedVars, xferVars, monVars>>

\* lines 340-350: reply_text is awaited outside the try; then
\* parse_upload_command (ValueError on a malformed command, gofile.py 112-122)
UploadReply(op, ok, cmdOk) ==
  /\ uploadPc[op] = "reply"
  /\ IF ~ok THEN UploadGoto(op, "aborted", "same")
     ELSE IF ~cmdOk THEN UploadGoto(op, "errValue", "ValidationError")
     ELSE UploadGoto(op, "editDownloading", "same")

\* lines 350-356: the download starts; its progress messages (lines 98-106)
\* carry the cancel button of the operation
UploadEditDownloading(op, ok) ==
  /\ uploadPc[op] = "editDownloading"
  /\ IF ok THEN UploadGoto(op, "downloading", "same")
     ELSE UploadGoto(op, "errOther", "same")

\* lines 356-372 with download_with_progress, lines 112-180: the transfer ends
\*   "cancelled": the flag was seen (lines 133-137, 164-170, 176-177 or 364-365)
\*   "done":      the file is there and the flag is not set at line 364
\*   "valueError": lines 125 or 152, re-raised at line 370
\*   "exception": any other error of the download
UploadDownload(op, result) ==
  /\ uploadPc[op] = "downloading"
  /\ CASE result = "cancelled" ->
            /\ active_operations[op].cancelled
            /\ UploadGoto(op, "errValue", "Cancelled")
       [] result = "done" ->
            /\ ~active_operations[op].cancelled
            /\ UploadGoto(op, "editDownloaded", "same")
       [] result = "valueError" -> UploadGoto(op, "errValue", "TransferError")
       [] result = "exception" -> UploadGoto(op, "errOther", "TransferError")

\* lines 372-381: validate_file_size, validate_file_type
UploadEditDownloaded(op, ok, valid) ==
  /\ uploadPc[op] = "editDownloaded"
  /\ IF ~ok THEN UploadGoto(op, "errOther", "same")
     ELSE IF ~valid THEN UploadGoto(op, "errValue", "ValidationError")
     ELSE UploadGoto(op, "editUploading", "same")

\* lines 381-383 and 295-304: upload_with_progress sends its first report
UploadEditUploading(op, ok) ==
  /\ uploadPc[op] = "editUploading"
  /\ IF ok THEN UploadGoto(op, "uploading", "same")
     ELSE UploadGoto(op, "errOther", "same")

\* lines 306-326 and 383-394 with uploadFile, gofile.py lines 40-110:
\*   "gofileError": uploadFile raises, re-raised as ValueError at line 392
\*   "removed": the upload succeeded and gofile.py line 79 removed the file, so
\*              os.path.getsize at line 315 raises FileNotFoundError
\*   "kept":    the upload succeeded and the removal at gofile.py line 79 failed
UploadTransfer(op, result) ==
  /\ uploadPc[op] = "uploading"
  /\ CASE result = "gofileError" -> UploadGoto(op, "errValue", "TransferError")
       [] result = "removed" -> UploadGoto(op, "errOther", "Uploaded")
       [] result = "kept" -> UploadGoto(op, "editUploaded", "Uploaded")

\* lines 394-427
UploadEditUploaded(op, ok) ==
  /\ uploadPc[op] = "editUploaded"
  /\ IF ok THEN UploadGoto(op, "editSummary", "same")
     ELSE UploadGoto(op, "errOther", "same")

\* mutant: the finally clause leaves the entry in active_operations
UploadFinalizeKeepsEntry(op, status) ==
  /\ statusLog' = IF status = "none" THEN statusLog
                  ELSE LogStatus(statusLog, operations_table, op, status)
  /\ operations_table' =
       RemoveOperation(IF status = "none" THEN operations_table
                       ELSE UpdateOperationStatus(operations_table, op, status), op)
  /\ active_operations' = active_operations
  /\ uploadPc' = [uploadPc EXCEPT ![op] = "done"]
  /\ notices' = IF status = "none" THEN notices ELSE Bump(notices, op)
  /\ UNCHANGED <<nextOp, batchPc, files_to_upload, handlers, runs, outcome, buttons,
                 cancelAnswer>>
  /\ UNCHANGED <<schedVars, xferVars, monVars>>

\* the end of handle_upload with the store available: the message of line 427,
\* 437 or 442 was shown (unless that edit_text raised: status = "none"), then
\* update_operation_status and the finally clause, lines 445-449
UploadFinalize(op, status) ==
  /\ statusLog' = IF status = "none" THEN statusLog
                  ELSE LogStatus(statusLog, operations_table, op, status)
  /\ operations_table' =
       RemoveOperation(IF status = "none" THEN operations_table
                       ELSE UpdateOperationStatus(operations_table, op, status), op)
  /\ active_operations' = DropActive(active_operations, op)
  /\ uploadPc' = [uploadPc EXCEPT ![op] = "done"]
  /\ notices' = IF status = "none" THEN notices ELSE Bump(notices, op)
  /\ UNCHANGED <<nextOp, batchPc, files_to_upload, handlers, runs, outcome, buttons,
                 cancelAnswer>>
  /\ UNCHANGED <<schedVars, xferVars, monVars>>

\* the end of handle_upload with the store unavailable: update_operation_status
\* raises inside the except clause (line 439 or 444), the finally clause drops
\* the entry (lines 446-447) and remove_operation raises at line 449
UploadFinalizeNoStore(op, shown) ==
  /\ active_operations' = DropActive(active_operations, op)
  /\ uploadPc' = [uploadPc EXCEPT ![op] = "done"]
  /\ notices' = IF shown THEN Bump(notices, op) ELSE notices
  /\ UNCHANGED <<operations_table, nextOp, batchPc, files_to_upload, handlers, runs,
                 statusLog, outcome, buttons, cancelAnswer>>
  /\ UNCHANGED <<schedVars, xferVars, monVars>>

\* lines 427-434 with the store unavailable: the summary was shown, line 434
\* raises inside the try, and the except clause of line 440 takes over
UploadSummaryNoStore(op) ==
  /\ uploadPc' = [uploadPc EXCEPT ![op] = "errOther"]
  /\ notices' = Bump(notices, op)
  /\ UNCHANGED <<active_operations, operations_table, nextOp, batchPc,
                 files_to_upload, handlers, runs, statusLog, outcome, buttons,
                 cancelAnswer>>
  /\ UNCHANGED <<schedVars, xferVars, monVars>>

\* lines 427-434 and 445-449
UploadEditSummary(op, ok, db) ==
  /\ uploadPc[op] = "editSummary"
  /\ IF ~ok THEN UploadGoto(op, "errOther", "same")
     ELSE IF db THEN UploadFinalize(op, "completed")
     ELSE UploadSummaryNoStore(op)

\* lines 436-439 and 445-449: except ValueError
UploadErrValue(op, ok, db) ==
  /\ uploadPc[op] = "errValue"
  /\ IF db THEN UploadFinalize(op, IF ok THEN "failed" ELSE "none")
     ELSE UploadFinalizeNoStore(op, ok)

\* lines 440-449: except Exception
UploadErrOther(op, ok, db) ==
  /\ uploadPc[op] = "errOther"
  /\ IF db THEN UploadFinalize(op, IF ok THEN "failed" ELSE "none")
     ELSE UploadFinalizeNoStore(op, ok)

UploadStep(op) ==
  \/ \E ok \in BOOLEAN, cmdOk \in BOOLEAN : UploadReply(op, ok, cmdOk)
  \/ \E ok \in BOOLEAN : UploadEditDownloading(op, ok)
  \/ \E result \in {"cancelled", "done", "valueError", "exception"} :
       UploadDownload(op, result)
  \/ \E ok \in BOOLEAN, valid \in BOOLEAN : UploadEditDownloaded(op, ok, valid)
  \/ \E ok \in BOOLEAN : UploadEditUploading(op, ok)
  \/ \E result \in {"gofileError", "removed", "kept"} : UploadTransfer(op, result)
  \/ \E ok \in BOOLEAN : UploadEditUploaded(op, ok)
  \/ \E ok \in BOOLEAN, db \in BOOLEAN : UploadEditSummary(op, ok, db)
  \/ \E ok \in BOOLEAN, db \in BOOLEAN : UploadErrValue(op, ok, db)
  \/ \E ok \in BOOLEAN, db \in BOOLEAN : UploadErrOther(op, ok, db)

\* ------------------------------------------------------------ handle_cancel
\* cancelAnswer holds the text of callback_query.answer: "Operation cancelled"
\* (line 188) or ERROR_MESSAGES['no_active_operation'] (line 194)
\* mutant: the cancel handler also records the status itself
HandleCancelMarksStatus(op) ==
  /\ op \in buttons
  /\ op \in DOMAIN active_operations
  /\ active_operations' = [active_operations EXCEPT ![op].cancelled = TRUE]
  /\ operations_table' = UpdateOperationStatus(operations_table, op, "cancelled")
  /\ statusLog' = LogStatus(statusLog, operations_table, op, "cancelled")
  /\ cancelAnswer' = [cancelAnswer EXCEPT ![op] = "Operation cancelled"]
  /\ \E ok \in BOOLEAN : notices' = IF ok THEN Bump(notices, op) ELSE notices
  /\ UNCHANGED <<nextOp, uploadPc, batchPc, files_to_upload, handlers, runs, outcome,
                 buttons>>
  /\ UNCHANGED <<schedVars, xferVars, monVars>>

\* handle_cancel, lines 182-194: the callback of a cancel button that was shown.
\* For an active operation the message is edited to
\* ERROR_MESSAGES['operation_cancelled'] (lines 189-192), unless the answer or
\* the edit raises.
HandleCancel(op) ==
  /\ op \in buttons
  /\ IF op \in DOMAIN active_operations
     THEN /\ active_operations' = [active_operations EXCEPT ![op].cancelled = TRUE]
          /\ cancelAnswer' = [cancelAnswer EXCEPT ![op] = "Operation cancelled"]
          /\ \E ok \in BOOLEAN : notices' = IF ok THEN Bump(notices, op) ELSE notices
     ELSE /\ UNCHANGED <<active_operations, notices>>
          /\ cancelAnswer' = [cancelAnswer EXCEPT ![op] = "no_active_operation"]
  /\ UNCHANGED <<operations_table, nextOp, uploadPc, batchPc, files_to_upload,
                 handlers, runs, statusLog, outcome, buttons>>
  /\ UNCHANGED <<schedVars, xferVars, monVars>>

\* ------------------------------------------------------------- handle_batch
\* handle_batch, lines 454-463: up to the await of reply_text
HandleBatch(u) ==
  /\ nextOp <= MaxOps
  /\ active_operations' = Register(active_operations, nextOp, u)
  /\ operations_table' = AddOperation(operations_table, nextOp, u, "batch_upload")
  /\ statusLog' = [statusLog EXCEPT ![nextOp] = <<"active">>]
  /\ batchPc' = [batchPc EXCEPT ![nextOp] = "reply"]
  /\ nextOp' = nextOp + 1
  /\ UNCHANGED <<uploadPc, files_to_upload, handlers, runs, outcome, buttons,
                 cancelAnswer, notices>>
  /\ UNCHANGED <<schedVars, xferVars, monVars>>

\* lines 463-479 and 590: the two handlers are registered for the sender, then
\* the handler sleeps 300 s; a raising reply_text ends it before that
BatchReply(op, ok) ==
  /\ batchPc[op] = "reply"
  /\ IF ok
     THEN /\ handlers' = Append(handlers,
                                [op |-> op, user_id |-> active_operations[op].user_id])
          /\ batchPc' = [batchPc EXCEPT ![op] = "collecting"]
     ELSE /\ batchPc' = [batchPc EXCEPT ![op] = "aborted"]
          /\ UNCHANGED handlers
  /\ UNCHANGED <<active_operations, operations_table, nextOp, uploadPc,
                 files_to_upload, runs, statusLog, outcome, buttons,
                 cancelAnswer, notices>>
  /\ UNCHANGED <<schedVars, xferVars, monVars>>

\* The dispatcher runs, for one update, the first registered handler whose
\* filter (here filters.user of the batch's sender, lines 472 and 478) matches.
HasHandler(u) == \E i \in 1..Len(handlers) : handlers[i].user_id = u

FirstHandler(u) ==
  handlers[CHOOSE i \in 1..Len(handlers) :
             /\ handlers[i].user_id = u
             /\ \A j \in 1..(i - 1) : handlers[j].user_id # u].op

\* collect_files, lines 472-476
CollectFiles(u) ==
  /\ HasHandler(u)
  /\ files_to_upload[FirstHandler(u)] < MaxFiles
  /\ files_to_upload' = [files_to_upload EXCEPT ![FirstHandler(u)] = @ + 1]
  /\ UNCHANGED <<active_operations, operations_table, nextOp, uploadPc, batchPc,
                 handlers, runs, statusLog, outcome, buttons,
                 cancelAnswer, notices>>
  /\ UNCHANGED <<schedVars, xferVars, monVars>>

\* lines 590-592: the sleep ends
BatchTimeout(op) ==
  /\ batchPc[op] = "collecting"
  /\ batchPc' = [batchPc EXCEPT ![op] =
                   IF files_to_upload[op] = 0 THEN "timeoutEdit" ELSE "returned"]
  /\ UNCHANGED <<active_operations, operations_table, nextOp, uploadPc,
                 files_to_upload, handlers, runs, statusLog, outcome, buttons,
                 cancelAnswer, notices>>
  /\ UNCHANGED <<schedVars, xferVars, monVars>>

\* lines 592-604: the edit_text returns (lines 593-597) or raises (lines
\* 598-604): the same clean-up either way
BatchTimeoutCleanup(op) ==
  /\ batchPc[op] = "timeoutEdit"
  /\ active_operations' = DropActive(active_operations, op)
  /\ operations_table' = RemoveOperation(operations_table, op)
  /\ handlers' = RemoveHandlers(handlers, op)
  /\ batchPc' = [batchPc EXCEPT ![op] = "returned"]
  /\ \E ok \in BOOLEAN : notices' = IF ok THEN Bump(notices, op) ELSE notices
  /\ UNCHANGED <<nextOp, uploadPc, files_to_upload, runs, statusLog, outcome,
                 buttons, cancelAnswer>>
  /\ UNCHANGED <<schedVars, xferVars, monVars>>

\* ------------------------------------------------------------- start_upload
\* start_upload, lines 478-491: /done with files collected, up to the await of
\* reply_text (with no file the handler only answers, lines 480-482)
Done(u) ==
  /\ HasHandler(u)
  /\ files_to_upload[FirstHandler(u)] > 0
  /\ BagCardinality(runs) < MaxRuns
  /\ runs' = runs (+) SetToBag({[op |-> FirstHandler(u), pc |-> "starting", index |-> 1]})
  /\ UNCHANGED <<active_operations, operations_table, nextOp, uploadPc, batchPc,
                 files_to_upload, handlers, statusLog, outcome, buttons,
                 cancelAnswer, notices>>
  /\ UNCHANGED <<schedVars, xferVars, monVars>>

\* lines 493-513: the head of the for loop over the live list, the test of the
\* flag (KeyError when the operation is gone, ValueError when it is set: both
\* leave the handler), then the status message with the cancel button
EnterIteration(op, index) ==
  IF index > files_to_upload[op] THEN [op |-> op, pc |-> "finalEdit", index |-> index]
  ELSE IF op \notin DOMAIN active_operations THEN Ended
  ELSE IF active_operations[op].cancelled THEN Ended
  ELSE [op |-> op, pc |-> "fileEdit", index |-> index]

\* the call run goes on as rec
Moved(run, rec) ==
  (runs (-) SetToBag({run})) (+) (IF rec = Ended THEN EmptyBag ELSE SetToBag({rec}))

RunGoto(run, rec) ==
  /\ runs' = Moved(run, rec)
  /\ UNCHANGED <<active_operations, operations_table, nextOp, uploadPc, batchPc,
                 files_to_upload, handlers, statusLog>>
  /\ UNCHANGED <<schedVars, xferVars, monVars>>

\* lines 488-495
RunStarting(run, ok) ==
  /\ run.pc = "starting"
  /\ RunGoto(run, IF ok THEN EnterIteration(run.op, 1) ELSE Ended)
  /\ UNCHANGED <<outcome, buttons,
                 cancelAnswer, notices>>

\* lines 513-521: the status message is shown and the download starts; lines
\* 555-557 when edit_text raises
RunFileEdit(run, ok) ==
  /\ run.pc = "fileEdit"
  /\ RunGoto(run, [run EXCEPT !.pc = IF ok THEN "transfer" ELSE "fileErrReply"])
  /\ buttons' = IF ok THEN buttons \cup {run.op} ELSE buttons
  /\ UNCHANGED <<cancelAnswer, notices>>
  /\ UNCHANGED outcome

\* lines 516-528 with download_with_progress and upload_with_progress:
\*   "uploaded":  both returned (the removal at gofile.py line 79 failed)
\*   "cancelled": download_with_progress saw the flag and raised
\*   "failed":    any other error, among them the KeyError of a removed
\*                operation and the FileNotFoundError of main.py line 315
RunTransfer(run, result) ==
  /\ run.pc = "transfer"
  /\ CASE result = "uploaded" ->
            /\ RunGoto(run, [run EXCEPT !.pc = "fileOkReply"])
            /\ UNCHANGED outcome
       [] result = "cancelled" ->
            /\ run.op \in DOMAIN active_operations
            /\ active_operations[run.op].cancelled
            /\ RunGoto(run, [run EXCEPT !.pc = "fileErrReply"])
            /\ outcome' = [outcome EXCEPT ![run.op] = "Cancelled"]
       [] result = "failed" ->
            /\ RunGoto(run, [run EXCEPT !.pc = "fileErrReply"])
            /\ UNCHANGED outcome
  /\ UNCHANGED <<buttons, cancelAnswer, notices>>

\* lines 547-566: the result is sent; on to the next file
RunFileOkReply(run, ok) ==
  /\ run.pc = "fileOkReply"
  /\ RunGoto(run, IF ok THEN EnterIteration(run.op, run.index + 1)
                  ELSE [run EXCEPT !.pc = "fileErrReply"])
  /\ UNCHANGED <<outcome, buttons,
                 cancelAnswer, notices>>

\* lines 555-566: except Exception: the failure is sent and the loop continues;
\* a raising reply_text leaves the handler
RunFileErrReply(run, ok) ==
  /\ run.pc = "fileErrReply"
  /\ RunGoto(run, IF ok THEN EnterIteration(run.op, run.index + 1) ELSE Ended)
  /\ UNCHANGED <<outcome, buttons,
                 cancelAnswer, notices>>

\* lines 568-586: the final status message, then the clean-up; a raising
\* edit_text leaves the handler before the clean-up
RunFinalEdit(run, ok) ==
  /\ run.pc = "finalEdit"
  /\ runs' = Moved(run, Ended)
  /\ IF ok
     THEN /\ statusLog' = LogStatus(statusLog, operations_table, run.op, "completed")
          /\ operations_table' =
               RemoveOperation(
                 UpdateOperationStatus(operations_table, run.op, "completed"), run.op)
          /\ active_operations' = DropActive(active_operations, run.op)
          /\ handlers' = RemoveHandlers(handlers, run.op)
          /\ notices' = Bump(notices, run.op)
     ELSE UNCHANGED <<statusLog, operations_table, active_operations, handlers,
                      notices>>
  /\ UNCHANGED <<nextOp, uploadPc, batchPc, files_to_upload, outcome, buttons,
                 cancelAnswer>>
  /\ UNCHANGED <<schedVars, xferVars, monVars>>

\* the states a start_upload call in flight can be in
RunRecs ==
  [op : OpIds,
   pc : {"starting", "fileEdit", "transfer", "fileOkReply", "fileErrReply", "finalEdit"},
   index : 1..(MaxFiles + 1)]

\* one step of a call in flight
RunStep(run) ==
  /\ BagIn(run, runs)
  /\ \/ \E ok \in BOOLEAN : RunStarting(run, ok)
     \/ \E ok \in BOOLEAN : RunFileEdit(run, ok)
     \/ \E result \in {"uploaded", "cancelled", "failed"} : RunTransfer(run, result)
     \/ \E ok \in BOOLEAN : RunFileOkReply(run, ok)
     \/ \E ok \in BOOLEAN : RunFileErrReply(run, ok)
     \/ \E ok \in BOOLEAN : RunFinalEdit(run, ok)

\* the transfer executors (download_with_progress / upload_with_progress
\* calls in progress) that work for operation op
ExecutorsOf(op) ==
  (IF uploadPc[op] \in {"downloading", "uploading"} THEN 1 ELSE 0)
  + BagCardinality([run \in {x \in BagToSet(runs) : x.pc = "transfer" /\ x.op = op}
                      |-> runs[run]])

OpsNext ==
  \/ \E u \in Users, db \in BOOLEAN : HandleUpload(u, db)
  \/ \E op \in OpIds : UploadStep(op)
  \/ \E op \in OpIds : HandleCancel(op)
  \/ \E u \in Users : HandleBatch(u)
  \/ \E op \in OpIds, ok \in BOOLEAN : BatchReply(op, ok)
  \/ \E u \in Users : CollectFiles(u)
  \/ \E op \in OpIds : BatchTimeout(op)
  \/ \E op \in OpIds : BatchTimeoutCleanup(op)
  \/ \E u \in Users : Done(u)
  \/ \E run \in RunRecs, ok \in BOOLEAN : BagIn(run, runs) /\ RunStarting(run, ok)
  \/ \E run \in RunRecs, ok \in BOOLEAN : BagIn(run, runs) /\ RunFileEdit(run, ok)
  \/ \E run \in RunRecs, result \in {"uploaded", "cancelled", "failed"} :
       BagIn(run, runs) /\ RunTransfer(run, result)
  \/ \E run \in RunRecs, ok \in BOOLEAN : BagIn(run, runs) /\ RunFileOkReply(run, ok)
  \/ \E run \in RunRecs, ok \in BOOLEAN : BagIn(run, runs) /\ RunFileErrReply(run, ok)
  \/ \E run \in RunRecs, ok \in BOOLEAN : BagIn(run, runs) /\ RunFinalEdit(run, ok)


\* ================= main.py: download_with_progress, upload_with_progress
\* One /upload operation, with the source as the code sees it: a stream of
\* srcChunks chunks (8192 bytes each for a URL, line 132) that may fail at any
\* point.  Sizes are counted in chunks.

XferInit ==
  /\ xferPc = "idle"
  /\ path = "none"
  /\ cancelFlag = FALSE
  /\ srcChunks = 0
  /\ total_size = 0
  /\ downloaded = 0
  /\ fileExists = FALSE
  /\ download_task = "none"
  /\ dlResult = "none"
  /\ flagAtStart = FALSE
  /\ writtenSinceCancel = 0
  /\ removalAttempted = FALSE
  /\ reports = <<>>

\* update_progress_message(current, total, ...), lines 77-110: one call, at the
\* time of the wall clock
Report(status, current, total) ==
  [status |-> status, bytes |-> current, total |-> total, at |-> now]

\* the states in which the operation has ended
XferEnded == {"cancelled", "failed", "completed"}

\* handle_cancel, line 187, for this operation
RequestCancel ==
  /\ xferPc \notin XferEnded
  /\ ~cancelFlag
  /\ cancelFlag' = TRUE
  /\ UNCHANGED <<xferPc, path, srcChunks, total_size, downloaded, fileExists,
                 download_task, dlResult, flagAtStart, writtenSinceCancel, reports>>
  /\ UNCHANGED removalAttempted
  /\ UNCHANGED <<schedVars, opsVars, monVars>>

\* download_with_progress is called (handle_upload line 356).
\*   url: lines 120-123, up to the await of session.get
\*   tg:  lines 150-171: the task is created and, before it has run, the loop
\*        of line 163 tests the flag: set, the task is cancelled unstarted and
\*        ValueError(operation_cancelled) is raised; else the first sleep
XferStart(p, n, size) ==
  /\ xferPc = "idle"
  /\ path' = p
  /\ srcChunks' = n
  /\ total_size' = size
  /\ flagAtStart' = cancelFlag
  /\ IF p = "url"
     THEN /\ xferPc' = "get"
          /\ UNCHANGED <<download_task, dlResult>>
     ELSE IF cancelFlag
     THEN /\ xferPc' = "cancelled"
          /\ download_task' = "cancelled"
          /\ dlResult' = "Cancelled"
     ELSE /\ xferPc' = "poll"
          /\ download_task' = "running"
          /\ UNCHANGED dlResult
  /\ UNCHANGED <<cancelFlag, downloaded, fileExists, writtenSinceCancel, reports>>
  /\ UNCHANGED removalAttempted
  /\ UNCHANGED <<schedVars, opsVars, monVars>>

\* lines 123-132: the response arrives.  Not 200 (or no response): the call
\* raises, line 125.  200: line 131 creates the file, line 132 awaits a chunk.
UrlResponse(ok) ==
  /\ xferPc = "get"
  /\ IF ok
     THEN /\ xferPc' = "chunk"
          /\ fileExists' = TRUE
          /\ UNCHANGED dlResult
     ELSE /\ xferPc' = "failed"
          /\ dlResult' = "httpError"
          /\ UNCHANGED fileExists
  /\ UNCHANGED <<path, cancelFlag, srcChunks, total_size, downloaded, download_task,
                 flagAtStart, writtenSinceCancel, reports>>
  /\ UNCHANGED removalAttempted
  /\ UNCHANGED <<schedVars, opsVars, monVars>>

\* the test of line 133 left out
FlagNeverSeen(flag) == FALSE

\* line 133: if active_operations[operation_id]['cancelled']
FlagSeen(flag) == flag

\* lines 134-136 without the os.remove: the file is still there
AbortKeepsFile(exists) == exists

\* lines 134-136: file.close(); os.remove(media): the file is gone
AbortReleasesFile(exists) == FALSE

\* lines 132-142: a chunk arrives.  The flag is tested before the chunk is
\* written; a chunk written is reported at once (line 142), unless the
\* division of line 141 raises ZeroDivisionError (no content-length), which
\* leaves the call with the file as it is.
UrlChunk ==
  /\ xferPc = "chunk"
  /\ downloaded < srcChunks
  /\ IF FlagSeen(cancelFlag)
     THEN /\ fileExists' = AbortReleasesFile(fileExists)
          /\ removalAttempted' = TRUE
          /\ dlResult' = "Cancelled"
          /\ xferPc' = "cancelled"
          /\ UNCHANGED <<downloaded, writtenSinceCancel, reports>>
     ELSE /\ downloaded' = downloaded + 1
          /\ writtenSinceCancel' = writtenSinceCancel + (IF cancelFlag THEN 1 ELSE 0)
          /\ UNCHANGED <<fileExists, removalAttempted>>
          /\ IF total_size = 0
             THEN /\ dlResult' = "zeroDivision"
                  /\ xferPc' = "failed"
                  /\ UNCHANGED reports
             ELSE /\ reports' = Append(reports,
                                      Report("Downloading", downloaded + 1, total_size))
                  /\ xferPc' = "report"
                  /\ UNCHANGED dlResult
  /\ UNCHANGED <<path, cancelFlag, srcChunks, total_size, download_task, flagAtStart>>
  /\ UNCHANGED <<schedVars, opsVars, monVars>>

\* lines 142-149 and 105-110: update_progress_message returns (it catches the
\* errors of edit_text); line 132 awaits the next chunk
UrlReportDone ==
  /\ xferPc = "report"
  /\ xferPc' = "chunk"
  /\ UNCHANGED <<path, cancelFlag, srcChunks, total_size, downloaded, fileExists,
                 download_task, dlResult, flagAtStart, writtenSinceCancel, reports>>
  /\ UNCHANGED removalAttempted
  /\ UNCHANGED <<schedVars, opsVars, monVars>>

\* line 132: the stream fails while a chunk is awaited (the connection is
\* lost).  The error leaves the with block of line 131, which closes the file
\* and does not remove it, and the call.
UrlStreamError ==
  /\ xferPc = "chunk"
  /\ downloaded < srcChunks
  /\ xferPc' = "failed"
  /\ dlResult' = "streamError"
  /\ UNCHANGED <<path, cancelFlag, srcChunks, total_size, downloaded, fileExists,
                 download_task, flagAtStart, writtenSinceCancel, reports>>
  /\ UNCHANGED removalAttempted
  /\ UNCHANGED <<schedVars, opsVars, monVars>>

\* lines 132 and 180: the stream ends, the call returns media
UrlStreamEnd ==
  /\ xferPc = "chunk"
  /\ downloaded = srcChunks
  /\ xferPc' = "downloaded"
  /\ dlResult' = "returned"
  /\ UNCHANGED <<path, cancelFlag, srcChunks, total_size, downloaded, fileExists,
                 download_task, flagAtStart, writtenSinceCancel, reports>>
  /\ UNCHANGED removalAttempted
  /\ UNCHANGED <<schedVars, opsVars, monVars>>

\* lines 155-160: the task of reply_message.download has received a chunk: it
\* writes it to its file and awaits progress(current, total, *progress_args),
\* which is update_progress_message
TgTaskChunk ==
  /\ xferPc = "poll"
  /\ download_task = "running"
  /\ downloaded < srcChunks
  /\ downloaded' = downloaded + 1
  /\ writtenSinceCancel' = writtenSinceCancel + (IF cancelFlag THEN 1 ELSE 0)
  /\ fileExists' = TRUE
  /\ reports' = Append(reports, Report("Downloading", downloaded + 1, total_size))
  /\ download_task' = "reporting"
  /\ UNCHANGED <<xferPc, path, cancelFlag, srcChunks, total_size, dlResult, flagAtStart>>
  /\ UNCHANGED removalAttempted
  /\ UNCHANGED <<schedVars, opsVars, monVars>>

\* update_progress_message returns to the task
TgTaskReportDone ==
  /\ xferPc = "poll"
  /\ download_task = "reporting"
  /\ download_task' = "running"
  /\ UNCHANGED <<xferPc, path, cancelFlag, srcChunks, total_size, downloaded,
                 fileExists, dlResult, flagAtStart, writtenSinceCancel, reports>>
  /\ UNCHANGED removalAttempted
  /\ UNCHANGED <<schedVars, opsVars, monVars>>

\* the task ends: with the file complete, or with an error of the download,
\* on which the library drops its partial file
TgTaskEnd(ok) ==
  /\ xferPc = "poll"
  /\ download_task = "running"
  /\ IF ok
     THEN /\ downloaded = srcChunks
          /\ download_task' = "done"
          /\ fileExists' = TRUE
     ELSE /\ downloaded < srcChunks
          /\ download_task' = "error"
          /\ fileExists' = FALSE
  /\ removalAttempted' = (removalAttempted \/ ~ok)
  /\ UNCHANGED <<xferPc, path, cancelFlag, srcChunks, total_size, downloaded,
                 dlResult, flagAtStart, writtenSinceCancel, reports>>
  /\ UNCHANGED <<schedVars, opsVars, monVars>>

\* lines 163-180: the sleep of line 171 ends.
\*   task done:  lines 173-180: its dlResult is returned, or its error raised:
\*               as ValueError(operation_cancelled) when the flag is set
\*   flag set:   lines 164-170: the task is cancelled and awaited (cancelled,
\*               the library drops its partial file), then
\*               ValueError(operation_cancelled)
\*   otherwise:  the next sleep
TgPoll ==
  /\ xferPc = "poll"
  /\ IF download_task = "done"
     THEN /\ xferPc' = "downloaded"
          /\ dlResult' = "returned"
          /\ UNCHANGED <<download_task, fileExists>>
     ELSE IF download_task = "error"
     THEN /\ xferPc' = IF cancelFlag THEN "cancelled" ELSE "failed"
          /\ dlResult' = IF cancelFlag THEN "Cancelled" ELSE "taskError"
          /\ UNCHANGED <<download_task, fileExists>>
     ELSE IF FlagSeen(cancelFlag)
     THEN /\ xferPc' = "cancelled"
          /\ dlResult' = "Cancelled"
          /\ download_task' = "cancelled"
          /\ fileExists' = AbortReleasesFile(fileExists)
     ELSE UNCHANGED <<xferPc, dlResult, download_task, fileExists>>
  /\ removalAttempted' =
       (removalAttempted \/ (download_task = "running" /\ FlagSeen(cancelFlag)))
  /\ UNCHANGED <<path, cancelFlag, srcChunks, total_size, downloaded, flagAtStart,
                 writtenSinceCancel, reports>>
  /\ UNCHANGED <<schedVars, opsVars, monVars>>

\* handle_upload, lines 364-383, and upload_with_progress, lines 295-304: the
\* flag is tested once more (line 364); then the file is validated (lines
\* 375-378: ValueError when it is too large or of a type not allowed) and
\* upload_with_progress reports 0 of the size of the file
AfterDownload(valid) ==
  /\ xferPc = "downloaded"
  /\ IF cancelFlag
     THEN /\ xferPc' = "cancelled"
          /\ UNCHANGED reports
     ELSE IF ~valid
     THEN /\ xferPc' = "failed"
          /\ UNCHANGED reports
     ELSE /\ xferPc' = "uploadReport"
          /\ reports' = Append(reports, Report("Uploading", 0, downloaded))
  /\ UNCHANGED <<path, cancelFlag, srcChunks, total_size, downloaded, fileExists,
                 download_task, dlResult, flagAtStart, writtenSinceCancel,
                 removalAttempted>>
  /\ UNCHANGED <<schedVars, opsVars, monVars>>

\* upload_with_progress, lines 306-321, with uploadFile (gofile.py 40-110),
\* which does not await:
\*   "gofileError": uploadFile raises before its os.remove
\*   "removed": the upload succeeded and gofile.py line 79 removed the file, so
\*              os.path.getsize at line 315 raises FileNotFoundError
\*   "kept":    the upload succeeded, the removal of line 79 failed, and the
\*              size of the file is reported as done
UploadFileStep(outcomeOfUpload) ==
  /\ xferPc = "uploadReport"
  /\ CASE outcomeOfUpload = "gofileError" ->
            /\ xferPc' = "failed"
            /\ UNCHANGED <<fileExists, reports, removalAttempted>>
       [] outcomeOfUpload = "removed" ->
            /\ xferPc' = "failed"
            /\ fileExists' = FALSE
            /\ removalAttempted' = TRUE
            /\ UNCHANGED reports
       [] outcomeOfUpload = "kept" ->
            /\ xferPc' = "uploadedReport"
            /\ reports' = Append(reports, Report("Uploading", downloaded, downloaded))
            /\ removalAttempted' = TRUE
            /\ UNCHANGED fileExists
  /\ UNCHANGED <<path, cancelFlag, srcChunks, total_size, downloaded, download_task,
                 dlResult, flagAtStart, writtenSinceCancel>>
  /\ UNCHANGED <<schedVars, opsVars, monVars>>

\* lines 323 and 394-434: upload_with_progress returns and the operation
\* completes (line 398 removes the file)
UploadDone ==
  /\ xferPc = "uploadedReport"
  /\ xferPc' = "completed"
  /\ fileExists' = FALSE
  /\ removalAttempted' = TRUE
  /\ UNCHANGED <<path, cancelFlag, srcChunks, total_size, downloaded, download_task,
                 dlResult, flagAtStart, writtenSinceCancel, reports>>
  /\ UNCHANGED <<schedVars, opsVars, monVars>>

XferNext ==
  \/ RequestCancel
  \/ \E p \in {"url", "tg"}, n \in 0..MaxChunks, known \in BOOLEAN :
       XferStart(p, n, IF p = "tg" \/ known THEN n ELSE 0)
  \/ \E ok \in BOOLEAN : UrlResponse(ok)
  \/ UrlChunk
  \/ UrlReportDone
  \/ UrlStreamError
  \/ UrlStreamEnd
  \/ TgTaskChunk
  \/ TgTaskReportDone
  \/ \E ok \in BOOLEAN : TgTaskEnd(ok)
  \/ TgPoll
  \/ \E valid \in BOOLEAN : AfterDownload(valid)
  \/ \E o \in {"gofileError", "removed", "kept"} : UploadFileStep(o)
  \/ UploadDone
  \/ Tick

\* ================= monitor.py: FileMonitor, FileUploadHandler
\* One watched directory and the files in it.  The handler is built with
\* allowed_extensions = [".mp4"].
Dirs  == {"d"}
Paths == {"d/a.mp4", "d/b.tmp", "d/c.mp4"}
allowed_extensions == {".mp4"}

\* the watched directory a file is in
DirOf(file_path) == "d"

\* os.path.splitext(file_path)[1].lower(), line 39
Ext(file_path) == IF file_path = "d/b.tmp" THEN ".tmp" ELSE ".mp4"

NoWatchCall == [op |-> "none"]

MonInit ==
  /\ watched_paths = <<>>
  /\ watches = {}
  /\ watchCall = NoWatchCall
  /\ fileSize = [p \in Paths |-> "absent"]
  /\ fileLocked = [p \in Paths |-> FALSE]
  /\ processing_files = <<>>
  /\ tasks = EmptyBag
  /\ notified = [p \in Paths |-> 0]
  /\ accepted = [p \in Paths |-> 0]
  /\ touched = [p \in Paths |-> FALSE]
  /\ checkLog = <<>>

\* mutant: the test of line 137 left out
NeverWatched(paths, dir) == FALSE

\* line 137: path in self.watched_paths
AlreadyWatched(paths, dir) == dir \in DOMAIN paths

\* add_watch, lines 128-145.  pathOk: the path exists and is a directory
\* (lines 131-135, ValueError otherwise); scheduleOk: observer.schedule
\* returns (line 140; an error leaves the call before line 141).
AddWatch(dir, recursive, pathOk, scheduleOk) ==
  /\ IF ~pathOk
     THEN /\ watchCall' = [op |-> "add_watch", path |-> dir,
                          recursive |-> recursive, ret |-> "raised"]
          /\ UNCHANGED <<watched_paths, watches>>
     ELSE IF AlreadyWatched(watched_paths, dir)
     THEN /\ watchCall' = [op |-> "add_watch", path |-> dir,
                          recursive |-> recursive, ret |-> "returned"]
          /\ UNCHANGED <<watched_paths, watches>>
     ELSE IF ~scheduleOk
     THEN /\ watchCall' = [op |-> "add_watch", path |-> dir,
                          recursive |-> recursive, ret |-> "raised"]
          /\ UNCHANGED <<watched_paths, watches>>
     ELSE /\ watchCall' = [op |-> "add_watch", path |-> dir,
                          recursive |-> recursive, ret |-> "added"]
          /\ watches' = watches \cup {dir}
          /\ watched_paths' = [q \in DOMAIN watched_paths \cup {dir} |->
                                 IF q = dir THEN recursive ELSE watched_paths[q]]
  /\ UNCHANGED <<fileSize, fileLocked, processing_files, tasks, notified, accepted,
                 touched, checkLog>>
  /\ UNCHANGED <<schedVars, opsVars, xferVars>>

\* remove_watch, lines 147-162.  unscheduleOk: the loop of lines 153-156 over
\* the observer's watches ends without an error (an error leaves the call
\* before line 158).
RemoveWatch(dir, unscheduleOk) ==
  /\ IF ~AlreadyWatched(watched_paths, dir)
     THEN /\ watchCall' = [op |-> "remove_watch", path |-> dir, ret |-> "returned"]
          /\ UNCHANGED <<watched_paths, watches>>
     ELSE IF ~unscheduleOk
     THEN /\ watchCall' = [op |-> "remove_watch", path |-> dir, ret |-> "raised"]
          /\ UNCHANGED <<watched_paths, watches>>
     ELSE /\ watchCall' = [op |-> "remove_watch", path |-> dir, ret |-> "removed"]
          /\ watches' = watches \ {dir}
          /\ watched_paths' = [q \in DOMAIN watched_paths \ {dir} |-> watched_paths[q]]
  /\ UNCHANGED <<fileSize, fileLocked, processing_files, tasks, notified, accepted,
                 touched, checkLog>>
  /\ UNCHANGED <<schedVars, opsVars, xferVars>>

\* the sizes the writer of a file gives it: a.mp4 is written in every way,
\* the other two files appear complete and disappear
WrittenSizes(file_path) ==
  IF file_path = "d/a.mp4" THEN {"absent", "small", "ok", "big"} ELSE {"absent", "ok"}

\* the writer of a file: it creates, grows, truncates, closes or deletes it;
\* b.tmp is never held open
FileChange(file_path, size, locked) ==
  /\ <<size, locked>> # <<fileSize[file_path], fileLocked[file_path]>>
  /\ size \in WrittenSizes(file_path)
  /\ size = "absent" => ~locked
  /\ file_path = "d/b.tmp" => ~locked
  /\ fileSize' = [fileSize EXCEPT ![file_path] = size]
  /\ fileLocked' = [fileLocked EXCEPT ![file_path] = locked]
  /\ touched' = [touched EXCEPT ![file_path] = @ \/ accepted[file_path] > 0]
  /\ watchCall' = NoWatchCall
  /\ UNCHANGED <<watched_paths, watches, processing_files, tasks, notified, accepted,
                 checkLog>>
  /\ UNCHANGED <<schedVars, opsVars, xferVars>>

\* mutant: the size is not looked at
IsValidFileAnySize(file_path) == Ext(file_path) \in allowed_extensions

\* _is_valid_file, lines 36-53; os.path.getsize of a missing file raises, which
\* line 51 turns into False
IsValidFile(file_path) ==
  /\ Ext(file_path) \in allowed_extensions
  /\ fileSize[file_path] = "ok"

\* mutant: a file counts as locked while any file is within its cooldown
IsFileLockedAnyPending(file_path) ==
  IF \E q \in DOMAIN processing_files : now - processing_files[q] < cooldown
  THEN TRUE
  ELSE fileLocked[file_path] \/ fileSize[file_path] = "absent"

\* _is_file_locked, lines 55-70; open() of a missing file raises
\* FileNotFoundError, an IOError
IsFileLocked(file_path) ==
  IF /\ file_path \in DOMAIN processing_files
     /\ now - processing_files[file_path] < cooldown
  THEN TRUE
  ELSE fileLocked[file_path] \/ fileSize[file_path] = "absent"

\* self.processing_files.pop(file_path, None), line 92
Pop(d, file_path) == [q \in DOMAIN d \ {file_path} |-> d[q]]

\* the number of creation notifications delivered so far
Notifications(f) == f["d/a.mp4"] + f["d/b.tmp"] + f["d/c.mp4"]

\* on_created, lines 20-34, for the creation of a file.  inLoop: the call is
\* made by a coroutine of the event loop; otherwise by the thread of the
\* observer, which watches the directory: there asyncio.create_task (line 34)
\* raises RuntimeError (no running event loop) after line 33 has recorded the
\* file, and no task exists.
OnCreated(file_path, inLoop) ==
  /\ Notifications(notified) + 1 <= MaxEvents
  /\ inLoop \/ DirOf(file_path) \in watches
  /\ notified' = [notified EXCEPT ![file_path] = @ + 1]
  /\ IF IsValidFile(file_path) /\ ~IsFileLocked(file_path)
     THEN /\ processing_files' = [q \in DOMAIN processing_files \cup {file_path} |->
                                    IF q = file_path THEN now ELSE processing_files[q]]
          /\ accepted' = [accepted EXCEPT ![file_path] = @ + 1]
          /\ tasks' = IF inLoop
                      THEN tasks (+) SetToBag({[path |-> file_path, pc |-> "sleep",
                                                wake |-> now + cooldown]})
                      ELSE tasks
     ELSE UNCHANGED <<processing_files, accepted, tasks>>
  /\ watchCall' = NoWatchCall
  /\ UNCHANGED <<watched_paths, watches, fileSize, fileLocked, touched, checkLog>>
  /\ UNCHANGED <<schedVars, opsVars, xferVars>>

\* the states a _process_file task can be in
TaskRecs == [path : Paths, pc : {"sleep", "callback"}, wake : 0..(MaxTime + cooldown)]

\* _process_file, lines 72-87: the sleep ends (line 76), the file is checked
\* (lines 79 and 83) and, when it passes, upload_callback is called (line 87);
\* otherwise the task ends through the finally clause (lines 91-92)
ProcessFileWake(task) ==
  /\ BagIn(task, tasks)
  /\ task.pc = "sleep"
  /\ now >= task.wake
  /\ LET valid == fileSize[task.path] # "absent" /\ IsValidFile(task.path)
         locked == IsFileLocked(task.path)
         rec == [path |-> task.path, size |-> fileSize[task.path],
                 locked |-> valid /\ locked,
                 waited |-> now - (task.wake - cooldown) >= cooldown,
                 invoked |-> valid /\ ~locked]
     IN /\ checkLog' = Append(checkLog, rec)
        /\ IF valid /\ ~locked
           THEN /\ tasks' = (tasks (-) SetToBag({task}))
                              (+) SetToBag({[task EXCEPT !.pc = "callback"]})
                /\ UNCHANGED processing_files
           ELSE /\ tasks' = tasks (-) SetToBag({task})
                /\ processing_files' = Pop(processing_files, task.path)
  /\ watchCall' = NoWatchCall
  /\ UNCHANGED <<watched_paths, watches, fileSize, fileLocked, notified, accepted,
                 touched>>
  /\ UNCHANGED <<schedVars, opsVars, xferVars>>

\* lines 87-92: upload_callback returns or raises (line 89 logs the error);
\* the finally clause drops the file from processing_files
ProcessFileReturn(task) ==
  /\ BagIn(task, tasks)
  /\ task.pc = "callback"
  /\ tasks' = tasks (-) SetToBag({task})
  /\ processing_files' = Pop(processing_files, task.path)
  /\ watchCall' = NoWatchCall
  /\ UNCHANGED <<watched_paths, watches, fileSize, fileLocked, notified, accepted,
                 touched, checkLog>>
  /\ UNCHANGED <<schedVars, opsVars, xferVars>>

MonNext ==
  \/ \E dir \in Dirs, recursive \in BOOLEAN, pathOk \in BOOLEAN, scheduleOk \in BOOLEAN :
       AddWatch(dir, recursive, pathOk, scheduleOk)
  \/ \E dir \in Dirs, unscheduleOk \in BOOLEAN : RemoveWatch(dir, unscheduleOk)
  \/ \E file_path \in Paths, size \in {"absent", "small", "ok", "big"},
        locked \in BOOLEAN : FileChange(file_path, size, locked)
  \/ \E file_path \in Paths, inLoop \in BOOLEAN : OnCreated(file_path, inLoop)
  \/ \E task \in TaskRecs : ProcessFileWake(task)
  \/ \E task \in TaskRecs : ProcessFileReturn(task)
  \/ Tick

Init == SchedInit /\ OpsInit /\ XferInit /\ MonInit

\* one operation's transfers, chunk by chunk, with the wall clock
XferSpec == Init /\ [][XferNext]_vars

\* the watch set and the files of the watched directory, with the wall clock
MonSpec == Init /\ [][MonNext]_vars

\* the scheduler on its own: no caller in the repository binds it to the handlers
SchedSpec == Init /\ [][SchedNext]_vars

\* every await of the loop returns: the sleep ends, and every action terminates
SchedFairSpec == SchedSpec /\ WF_vars(LoopWake) /\ WF_vars(CallbackReturn)

\* the handlers on their own
OpsSpec == Init /\ [][OpsNext]_vars

\* every await of a handler returns: the messages are answered, the transfers
\* end, the 300 s sleep ends.  Nothing is assumed of what the users send.
OpsFairSpec ==
  /\ OpsSpec
  /\ \A op \in OpIds : WF_vars(UploadStep(op))
  /\ \A op \in OpIds : WF_vars((\E ok \in BOOLEAN : BatchReply(op, ok)))
  /\ \A op \in OpIds : WF_vars(BatchTimeout(op))
  /\ \A op \in OpIds : WF_vars(BatchTimeoutCleanup(op))
  /\ \A run \in RunRecs : WF_vars(RunStep(run))

\* ======================================================= scheduler claims

OidsOf(tbl) == {tbl[i].oid : i \in 1..Len(tbl)}

\* C1: a due task whose action raised is removed from the table right after
\* that attempt and its action is never invoked again on a later tick.
C1_FailedTaskRemovedNoRetry ==
  \A o \in failed : o \notin OidsOf(scheduled_tasks) /\ invoked[o] <= 1

\* C6: schedule_upload with an id that is already in the table returns False
\* and leaves the table (time, callback and arguments of the first task) as it was.
C6_DuplicateRejected ==
  [][(lastCall'.op = "schedule_upload" /\ HasTask(scheduled_tasks, lastCall'.id))
       => (lastCall'.ret = FALSE /\ scheduled_tasks' = scheduled_tasks)]_vars

C6_Witness ==
  /\ lastCall = [op |-> "schedule_upload", id |-> "t1", ret |-> FALSE]
  /\ HasTask(scheduled_tasks, "t1")

\* C7: whatever the outcome of a callback (in particular when it raises), a tick
\* executes every entry of its snapshot in turn and ends only after the last
\* one, and the loop then sleeps for the next tick; only stop() ends it.
C7_FailureDoesNotAbortTick ==
  [][loopPc = "inCallback" =>
       \/ ~running'
       \/ /\ loopPc' = "inCallback"
          /\ tasks_to_run' = tasks_to_run
          /\ idx' \in {idx, idx + 1}
          /\ ranInTick' = [i \in 1..idx' |-> tasks_to_run[i].oid]
       \/ /\ loopPc' = "sleep"
          /\ idx = Len(tasks_to_run)]_vars

\* a second task is being executed in the tick in which the first one raised
C7_Witness ==
  /\ loopPc = "inCallback"
  /\ idx = 2
  /\ tasks_to_run[1].callback = "fail"
  /\ tasks_to_run[1].oid \in failed

C9_DueTaskEventuallyInvoked ==
  \A o \in Oids :
     (running /\ \E i \in 1..Len(scheduled_tasks) :
                    scheduled_tasks[i].oid = o /\ scheduled_tasks[i].scheduled_time <= now)
       ~> (invoked[o] > 0 \/ ~running \/ o \in cancelledOids)

\* C10: no action is being invoked while the clock is before its task's time.
C10_NeverBeforeScheduledTime ==
  loopPc = "inCallback" => tasks_to_run[idx].scheduled_time <= now

\* a due task is invoked while a task whose time has not come stays waiting
C10_Witness ==
  /\ loopPc = "inCallback"
  /\ tasks_to_run[idx].scheduled_time <= now
  /\ \E i \in 1..Len(scheduled_tasks) : scheduled_tasks[i].scheduled_time > now

\* C11: stop() returns only after the tick in flight has completed: once every
\* stop() call has returned, no action that the loop had started is left cut
\* short.
C11_StopAwaitsTickCompletion ==
  awaited = 0 => interrupted = {}

\* the loop tasks that still run the polling loop: the one self._task
\* references, unless stop() cancelled it, and the unreferenced ones
LiveLoops == orphans + (IF loopPc \in LiveLoopPcs THEN 1 ELSE 0)

\* C12: start() on a running scheduler and stop() on a stopped one change
\* nothing, and whatever the sequence of start and stop calls (a start while a
\* stop is suspended at its await included) at most one polling loop is alive.
C12_StartStopIdempotent ==
  /\ [](LiveLoops <= 1)
  /\ [][((running /\ Start) \/ (~running /\ Stop))
         => UNCHANGED <<scheduled_tasks, running, loopPc, tasks_to_run, idx, now,
                        nextOid, awaited, orphans>>]_vars

\* start() has created a loop while a stop() is still suspended at its await
C12_Witness ==
  /\ awaited > 0
  /\ running
  /\ loopPc = "created"

\* C13: cancel_upload of an absent id returns False and changes nothing; of a
\* present id it returns True and removes that task and no other.
C13_CancelUploadExact ==
  [][lastCall'.op = "cancel_upload" =>
       IF HasTask(scheduled_tasks, lastCall'.id)
       THEN /\ lastCall'.ret = TRUE
            /\ ~HasTask(scheduled_tasks', lastCall'.id)
            /\ Len(scheduled_tasks') = Len(scheduled_tasks) - 1
            /\ \A i \in 1..Len(scheduled_tasks) :
                  scheduled_tasks[i].id # lastCall'.id =>
                    \E j \in 1..Len(scheduled_tasks') :
                       scheduled_tasks'[j] = scheduled_tasks[i]
       ELSE /\ lastCall'.ret = FALSE
            /\ scheduled_tasks' = scheduled_tasks]_vars

\* one of two tasks has just been cancelled, the other one is still there
C13_Witness ==
  /\ lastCall = [op |-> "cancel_upload", id |-> "t1", ret |-> TRUE]
  /\ HasTask(scheduled_tasks, "t2")

\* ====================================================== operation claims

\* C2: a transfer that ended because the cancellation flag was observed is
\* finalized with the recorded status cancelled, and the status failed is
\* recorded only for the other failures.
C2_CancelledNotFailed ==
  \A op \in OpIds :
     (uploadPc[op] = "done" /\ Len(statusLog[op]) > 1) =>
        /\ outcome[op] = "Cancelled" => statusLog[op][Len(statusLog[op])] = "cancelled"
        /\ statusLog[op][Len(statusLog[op])] = "failed" => outcome[op] # "Cancelled"

AllowedEdges ==
  {<<"pending", "active">>, <<"active", "completed">>, <<"active", "failed">>,
   <<"active", "cancelled">>}

\* C3: the statuses recorded for an operation follow pending -> active ->
\* {completed | failed | cancelled}: each change is one of these edges, so a
\* terminal status is never changed again, under every interleaving of the
\* upload, batch and cancel handlers.
C3_StatusFollowsLifecycle ==
  \A op \in OpIds :
     /\ \A i \in 1..(Len(statusLog[op]) - 1) :
          <<statusLog[op][i], statusLog[op][i + 1]>> \in AllowedEdges
     /\ op \in DOMAIN operations_table =>
          operations_table[op].status = statusLog[op][Len(statusLog[op])]

\* an upload finalized after a cancel request next to a batch that completed
C3_Witness ==
  \E a \in OpIds, b \in OpIds :
     /\ statusLog[a] = <<"active", "failed">>
     /\ outcome[a] = "Cancelled"
     /\ statusLog[b] = <<"active", "completed">>
     /\ batchPc[b] # "none"

\* C4: every operation registered in the in-memory table is eventually removed
\* from it.
C4_EveryOperationRemoved ==
  \A op \in OpIds :
     (op \in DOMAIN active_operations) ~> (op \notin DOMAIN active_operations)

\* the recorded status of op is completed, failed or cancelled
Terminal(op) ==
  /\ Len(statusLog[op]) > 0
  /\ statusLog[op][Len(statusLog[op])] \in {"completed", "failed", "cancelled"}

\* C14: a cancel request for an operation whose recorded status is terminal is
\* answered with "no active operation" and alters neither the flag nor the
\* recorded status.
C14_CancelOfTerminalRejected ==
  [][\A op \in OpIds :
       (HandleCancel(op) /\ Terminal(op)) =>
          /\ cancelAnswer'[op] = "no_active_operation"
          /\ UNCHANGED <<statusLog, operations_table, active_operations>>]_vars

\* the cancel button of a finished operation has been pressed
C14_Witness ==
  \E op \in OpIds : Terminal(op) /\ cancelAnswer[op] = "no_active_operation"

\* C5: at any time at most one transfer executor works for an operation.
C5_AtMostOneExecutor == \A op \in OpIds : ExecutorsOf(op) <= 1

\* ======================================================= transfer claims

\* C15: a transfer started with the flag already set ends as Cancelled and has
\* written no chunk.
C15_PresetFlagEndsCancelled ==
  (flagAtStart /\ xferPc \in XferEnded \cup {"downloaded"}) =>
     (downloaded = 0 /\ dlResult = "Cancelled")

C17_CancelReleasesPartialOutput ==
  dlResult = "Cancelled" => ~fileExists

\* a download aborted with a chunk already in its file
C17_Witness ==
  /\ dlResult = "Cancelled"
  /\ downloaded > 0
  /\ downloaded < srcChunks
  /\ ~fileExists

\* C18: when the source failed in the middle of a download, no partly written
\* file is left.
C18_ErrorRemovesPartialOutput ==
  (dlResult \in {"streamError", "taskError"} /\ downloaded > 0) => ~fileExists

\* C19: the progress reports of one operation never decrease in bytes, the
\* last one of a completed operation equals its total, and a 100% report is the
\* last report of the operation.
C19_ProgressMonotone ==
  /\ \A i \in 1..(Len(reports) - 1) : reports[i].bytes <= reports[i + 1].bytes
  /\ xferPc = "completed" =>
        /\ Len(reports) > 0
        /\ reports[Len(reports)].bytes = reports[Len(reports)].total
  /\ \A i \in 1..Len(reports) :
        (reports[i].total > 0 /\ reports[i].bytes = reports[i].total)
          => i = Len(reports)

\* C20: two successive progress reports of the chunk loop of a download are at
\* least the configured interval apart.
C20_ReportsThrottled ==
  path = "url" =>
    \A i \in 1..(Len(reports) - 1) :
       (reports[i].status = "Downloading" /\ reports[i + 1].status = "Downloading")
         => reports[i + 1].at - reports[i].at >= PROGRESS_UPDATE_INTERVAL

\* ---------------------------------------------------------------- OpsSpec
\* C21: every operation whose record reached a terminal status has been told
\* to its user by exactly one message: the summary, the failure or the
\* cancellation notice.
C21_OneTerminalMessage ==
  \A op \in OpIds : Terminal(op) => notices[op] = 1

\* C22: once a finalized operation has left the in-memory table, its durable
\* record is still there and holds the last status written.
C22_DurableRecordRetained ==
  \A op \in OpIds :
     (Terminal(op) /\ op \notin DOMAIN active_operations)
       => /\ op \in DOMAIN operations_table
          /\ operations_table[op].status = statusLog[op][Len(statusLog[op])]

\* C23: a request rejected for a validation reason has created no operation,
\* neither in the in-memory table nor in the durable store.
C23_ValidationRejectsWithoutSideEffects ==
  \A op \in OpIds :
     outcome[op] = "ValidationError"
       => (statusLog[op] = <<>> /\ op \notin DOMAIN active_operations)

\* C24: handle_upload finalizes an operation only on the outcome of its
\* validation or of its transfer: a message that could not be shown does not
\* end it before.
C24_NotificationFailureDoesNotAbort ==
  \A op \in OpIds : uploadPc[op] = "done" => outcome[op] # "none"

\* C25: an upload command whose durable record could not be written is still
\* carried through: its handler does not end with the entry left in the
\* in-memory table.
C25_StoreFailureStillFinalizes ==
  \A op \in OpIds :
     (uploadPc[op] \in {"aborted", "done"} /\ statusLog[op] = <<>>)
       => op \notin DOMAIN active_operations

\* --------------------------------------------------------------- XferSpec
\* C26: when an operation whose download delivered its file has ended, on
\* whatever path, the file is gone or its removal was attempted.
C26_CleanupAttemptedOnEveryPath ==
  (xferPc \in XferEnded /\ dlResult = "returned" /\ fileExists) => removalAttempted

\* ---------------------------------------------------------------- MonSpec
\* the stabilization checks made for file_path, and those that called
\* upload_callback
ChecksOf(file_path) ==
  Cardinality({i \in 1..Len(checkLog) : checkLog[i].path = file_path})

InvocationsOf(file_path) ==
  Cardinality({i \in 1..Len(checkLog) :
                 checkLog[i].path = file_path /\ checkLog[i].invoked})

\* the _process_file tasks of file_path that are still asleep, and all of them
SleepingOf(file_path) ==
  BagCardinality([t \in {x \in BagToSet(tasks) : x.path = file_path /\ x.pc = "sleep"}
                    |-> tasks[t]])

TasksOf(file_path) ==
  BagCardinality([t \in {x \in BagToSet(tasks) : x.path = file_path} |-> tasks[t]])

\* C27: upload_callback is called only for a file that, at its stabilization
\* check, has an allowed extension and a size within the limits; and a
\* notification of a file below the minimum size starts nothing.
C27_SmallFileNeverIngested ==
  /\ [](\A i \in 1..Len(checkLog) :
          checkLog[i].invoked
            => (checkLog[i].size = "ok" /\ Ext(checkLog[i].path) \in allowed_extensions))
  /\ [][\A p \in Paths :
          (notified'[p] # notified[p] /\ fileSize[p] = "small")
            => UNCHANGED <<processing_files, tasks, accepted, checkLog>>]_vars

\* a file accepted at its notification had shrunk below the minimum size when
\* its stabilization check was made, and was not handed over
C27_Witness ==
  \E i \in 1..Len(checkLog) : checkLog[i].size = "small" /\ ~checkLog[i].invoked

\* C28: a file found locked at its stabilization check is not handed to
\* upload_callback, and every accepted notification has exactly one
\* stabilization check: made, or still to come after the sleep.
C28_LockedFileDroppedAfterOneCheck ==
  /\ \A i \in 1..Len(checkLog) : checkLog[i].locked => ~checkLog[i].invoked
  /\ \A p \in Paths : ChecksOf(p) + SleepingOf(p) = accepted[p]

\* C29: after a single notification of a file that is valid and not locked,
\* and stays so, upload_callback has been called exactly once for it, after
\* the cooldown, once nothing is pending for the file any more.
C29_IngestedExactlyOnce ==
  \A p \in Paths :
     (notified[p] = 1 /\ accepted[p] = 1 /\ ~touched[p] /\ TasksOf(p) = 0)
       => /\ InvocationsOf(p) = 1
          /\ \A i \in 1..Len(checkLog) : checkLog[i].path = p => checkLog[i].waited

\* C30: add_watch of a watched path and remove_watch of an unwatched path
\* change neither the watch set nor a recursive flag; add_watch that adds
\* leaves the path watched with the flag given, remove_watch that removes
\* leaves it unwatched (so that a second call changes nothing).
C30_WatchCallsIdempotent ==
  [][/\ (watchCall'.op = "add_watch" /\ watchCall'.path \in DOMAIN watched_paths)
          => UNCHANGED <<watched_paths, watches>>
     /\ (watchCall'.op = "remove_watch" /\ watchCall'.path \notin DOMAIN watched_paths)
          => UNCHANGED <<watched_paths, watches>>
     /\ (watchCall'.op = "add_watch" /\ watchCall'.ret = "added")
          => /\ watchCall'.path \in DOMAIN watched_paths'
             /\ watched_paths'[watchCall'.path] = watchCall'.recursive
     /\ (watchCall'.op = "remove_watch" /\ watchCall'.ret = "removed")
          => watchCall'.path \notin DOMAIN watched_paths']_vars

\* add_watch has returned for a path that is watched with the other flag
C30_Witness ==
  /\ watchCall.op = "add_watch"
  /\ watchCall.ret = "returned"
  /\ watchCall.path \in DOMAIN watched_paths
  /\ watched_paths[watchCall.path] # watchCall.recursive

\* C32: a task that schedule_upload adds while the batch of a tick is being
\* executed is not part of that batch, due or not: the batch is the snapshot
\* taken by the scan, every action invoked during the tick belongs to an entry
\* that was in the table before the step that invokes it began, and an entry
\* added during the batch is invoked by a later scan at the earliest.
C32_AddedDuringBatchWaits ==
  [][(loopPc = "inCallback" /\ loopPc' = "inCallback") =>
       /\ OidsOf(tasks_to_run') \subseteq OidsOf(tasks_to_run)
       /\ \A o \in OidsOf(scheduled_tasks') \ OidsOf(scheduled_tasks) :
            /\ o \notin OidsOf(tasks_to_run')
            /\ \A i \in 1..Len(ranInTick') : ranInTick'[i] # o
            /\ invoked'[o] = 0]_vars

\* a task that is already due has just been added while the only entry of the
\* batch is being executed
C32_Witness ==
  /\ loopPc = "inCallback"
  /\ lastCall.op = "schedule_upload"
  /\ lastCall.ret
  /\ \E i \in 1..Len(scheduled_tasks) :
        /\ scheduled_tasks[i].id = lastCall.id
        /\ scheduled_tasks[i].scheduled_time <= now
        /\ scheduled_tasks[i].oid \notin OidsOf(tasks_to_run)
        /\ invoked[scheduled_tasks[i].oid] = 0

\* C36: once cancel_upload has returned True for a task, the action of that
\* task is not invoked by any later step, also when the task was in the
\* snapshot of the tick in progress.
C36_CancelledNeverInvoked ==
  [][\A o \in cancelledOids : invoked'[o] = invoked[o]]_vars

\* C37: an entry leaves the table only by the end of its own execution attempt
\* or by a cancel_upload call for its id that returns True.
C37_LeavesOnlyByOwnRunOrCancel ==
  [][\A o \in OidsOf(scheduled_tasks) \ OidsOf(scheduled_tasks') :
       \/ loopPc = "inCallback" /\ tasks_to_run[idx].oid = o
       \/ /\ lastCall'.op = "cancel_upload"
          /\ lastCall'.ret
          /\ HasTask(scheduled_tasks, lastCall'.id)
          /\ GetTask(scheduled_tasks, lastCall'.id).oid = o]_vars

\* C40: a URL download whose source reports no total size (total_size = 0)
\* does not fail in the progress computation: no chunk written to the file is
\* followed by an arithmetic error that ends the download and leaves the
\* partly written file behind.
C40_ZeroTotalDownloadSucceeds ==
  (path = "url" /\ total_size = 0 /\ downloaded > 0) =>
     /\ dlResult # "zeroDivision"
     /\ (xferPc = "failed" /\ dlResult # "returned") => ~fileExists

\* C34: when the backend upload of an operation has succeeded (after a
\* successful download and validation), the handler goes on to report the
\* result and to finalize the operation as completed: the step in which the
\* upload succeeds does not put the handler on its failure path.
C34_SuccessfulUploadNotFailed ==
  [][\A op \in OpIds :
       (uploadPc[op] = "uploading" /\ outcome'[op] = "Uploaded")
         => uploadPc'[op] \notin {"errValue", "errOther"}]_vars

\* C35: once handle_cancel has set the flag of an operation and answered
\* 'Operation cancelled', no later step uploads a file of that operation to the
\* backend and no later step writes the status completed for it.
C35_CancelledNeverCompletes ==
  [][\A op \in OpIds :
       (cancelAnswer[op] = "Operation cancelled") =>
          /\ ~(uploadPc[op] = "uploading" /\ outcome'[op] = "Uploaded")
          /\ ~(/\ statusLog'[op] # statusLog[op]
               /\ statusLog'[op][Len(statusLog'[op])] = "completed")]_vars

\* C39: a per-batch handler is registered only while its batch operation is in
\* the in-memory table, and the handlers of a batch that was cancelled and has
\* no upload loop left in progress are no longer registered.
C39_HandlersOnlyWhileBatchActive ==
  \A i \in 1..Len(handlers) :
     LET op == handlers[i].op IN
       /\ op \in DOMAIN active_operations
       /\ active_operations[op].cancelled
            => \E run \in BagToSet(runs) : run.op = op

\* the decision of on_created for file_path, from the state of that file alone
OwnDecision(file_path) ==
  /\ Ext(file_path) \in allowed_extensions
  /\ fileSize[file_path] = "ok"
  /\ ~fileLocked[file_path]
  /\ ~(file_path \in DOMAIN processing_files
         /\ now - processing_files[file_path] < cooldown)

\* the _process_file tasks of file_path
TaskBagOf(bag, file_path) ==
  [t \in {x \in BagToSet(bag) : x.path = file_path} |-> bag[t]]

\* C31: files are processed independently.  Whatever the tasks of other files
\* are doing (asleep or inside upload_callback), a task whose sleep is over can
\* make its check and a task inside upload_callback can finish; a notification
\* for a file is accepted or not by the state of that file alone; and a step
\* that starts, checks or ends a task of one file changes neither the tasks
\* nor the pending entry of any other file.
C31_FilesProcessedIndependently ==
  /\ [](\A t \in BagToSet(tasks) :
          /\ (t.pc = "sleep" /\ now >= t.wake) => ENABLED ProcessFileWake(t)
          /\ t.pc = "callback" => ENABLED ProcessFileReturn(t))
  /\ [][\A q \in Paths :
          /\ notified'[q] # notified[q]
               => ((accepted'[q] # accepted[q]) <=> OwnDecision(q))
          /\ (\E p \in Paths \ {q} :
                \/ notified'[p] # notified[p]
                \/ TaskBagOf(tasks', p) # TaskBagOf(tasks, p))
               => /\ TaskBagOf(tasks', q) = TaskBagOf(tasks, q)
                  /\ (q \in DOMAIN processing_files') = (q \in DOMAIN processing_files)
                  /\ q \in DOMAIN processing_files
                       => processing_files'[q] = processing_files[q]]_vars

\* a notification was accepted for one file while the task of another file was
\* in flight, and both files have passed their checks and are being ingested
C31_Witness ==
  \E t1, t2 \in BagToSet(tasks) :
     /\ t1.path # t2.path
     /\ t1.pc = "callback"
     /\ t2.pc = "callback"
     /\ InvocationsOf(t1.path) = 1
     /\ InvocationsOf(t2.path) = 1

\* C33: a pending entry exists only between the acceptance of a notification
\* and the end of the stabilization check it started: every path in
\* processing_files has a _process_file task in flight, and when a task ends
\* (file gone, invalid, locked, upload_callback returned or raised) the entry
\* of its path is gone.
C33_PendingEntryOnlyDuringCheck ==
  /\ [](\A p \in DOMAIN processing_files : TasksOf(p) > 0)
  /\ [][\A p \in Paths :
          BagCardinality(TaskBagOf(tasks', p)) < BagCardinality(TaskBagOf(tasks, p))
            => p \notin DOMAIN processing_files']_vars

\* C38: at most one _process_file task per path is in flight, and a task that
\* ends does not drop the pending entry of its path while another task of
\* that path is still in flight.
C38_OneTaskPerPath ==
  /\ [](\A p \in Paths : TasksOf(p) <= 1)
  /\ [][\A p \in Paths :
          (/\ BagCardinality(TaskBagOf(tasks', p)) < BagCardinality(TaskBagOf(tasks, p))
           /\ BagCardinality(TaskBagOf(tasks', p)) > 0
           /\ p \in DOMAIN processing_files)
            => p \in DOMAIN processing_files']_vars

====
